---- MODULE Spec2Model ----
(***************************************************************************)
(* Certificate authority services of lib/services: validation of a CA,     *)
(* JWT authority operations, TLS certificate pools, CA equivalence and the *)
(* versioned marshal/unmarshal codec of CA and cluster-name resources.     *)
(***************************************************************************)
EXTENDS Integers, Sequences, FiniteSets, TLC

VARIABLES
    op,       \* the call that produced the current state ("init" before any call)
    ca,       \* the certificate authority object the caller holds
    rhs,      \* a second certificate authority (right operand of the equivalence)
    cas,      \* a list of certificate authorities (pool building)
    cn,       \* the cluster-name object the caller holds
    opts,     \* the marshal options of the call
    bytes,    \* the byte buffer handed to / returned by the codec
    ret,      \* the value returned by the last call
    pc,       \* per marshal call: its position inside MarshalCertAuthority / MarshalClusterName
    local,    \* per marshal call: the object its local variable points to
    out       \* per marshal call: the bytes it returned

vars == <<op, ca, rhs, cas, cn, opts, bytes, ret, pc, local, out>>

(* ------------------------------ bounds --------------------------------- *)
MaxKeys == 2
MaxPairs == 2
MaxID == 2
MaxTime == 1
MaxCAs == 2
NumCallers == 2

(* --------------------------- values of types --------------------------- *)
Nil == "nil"
\* A Go pointer: NilPtr is nil, Ptr(x) points to x and ptr[1] dereferences it.
NilPtr == <<>>
Ptr(x) == <<x>>
V2 == "2"
HostCA == "host"
UserCA == "user"
JWTSigner == "jwt"

\* Raw key material: <<>> is an empty byte slice, <<"junk">> does not parse,
\* <<alg, n>> is well-formed PEM of key number n for algorithm alg.
KeyIds == {1, 2}
Junk == <<"junk">>
Empty == <<>>
RSAKeys == {<<"RSA", n>> : n \in KeyIds}
ECKeys == {<<"EC", 1>>}

\* ssh.ParseAuthorizedKey
ParseAuthorizedKey(b) ==
    IF Len(b) = 2 THEN [err |-> Nil, key |-> Ptr([part |-> "ssh-public", alg |-> b[1], n |-> b[2]])]
    ELSE [err |-> "parse ssh public key", key |-> NilPtr]

\* ssh.ParsePrivateKey
ParseSSHPrivateKey(b) ==
    IF Len(b) = 2 THEN [err |-> Nil, key |-> Ptr([part |-> "ssh-private", alg |-> b[1], n |-> b[2]])]
    ELSE [err |-> "parse ssh private key", key |-> NilPtr]

\* utils.ParsePrivateKey
ParsePrivateKey(b) ==
    IF Len(b) = 2 THEN [err |-> Nil, key |-> Ptr([part |-> "private", alg |-> b[1], n |-> b[2]])]
    ELSE [err |-> "parse private key", key |-> NilPtr]

\* utils.ParsePublicKey
ParsePublicKey(b) ==
    IF Len(b) = 2 THEN [err |-> Nil, key |-> Ptr([part |-> "public", alg |-> b[1], n |-> b[2]])]
    ELSE [err |-> "parse public key", key |-> NilPtr]

\* tlsca.ParseCertificatePEM
ParseCertificatePEM(b) ==
    IF Len(b) = 2 THEN [err |-> Nil, cert |-> Ptr([part |-> "x509", alg |-> b[1], n |-> b[2]])]
    ELSE [err |-> "parse certificate PEM", cert |-> NilPtr]

\* defaults.ApplicationTokenAlgorithm (RS256)
ApplicationTokenAlgorithm == "RSA"

\* jwt.New: a usable signer/verifier needs a key, a cluster name and keys of
\* the configured algorithm.
JWTNew(cfg) ==
    IF cfg.PrivateKey = NilPtr /\ cfg.PublicKey = NilPtr THEN [err |-> "public or private key is required", key |-> NilPtr]
    ELSE IF cfg.ClusterName = "" THEN [err |-> "cluster name is required", key |-> NilPtr]
    ELSE IF cfg.PrivateKey # NilPtr /\ cfg.PrivateKey[1].alg # cfg.Algorithm THEN [err |-> "unsupported key", key |-> NilPtr]
    ELSE IF cfg.PublicKey # NilPtr /\ cfg.PublicKey[1].alg # cfg.Algorithm THEN [err |-> "unsupported key", key |-> NilPtr]
    ELSE [err |-> Nil, key |-> Ptr(cfg)]

(* ------------------------------ CA model ------------------------------- *)
\* types.NewCertAuthority(types.CertAuthoritySpecV2{...})
NewCertAuthoritySpec(caType, clusterName, signingKeys, checkingKeys, roles, jwtKeyPairs) ==
    [Version |-> V2, ID |-> 0, Expires |-> 0,
     Type |-> caType, ClusterName |-> clusterName,
     SigningKeys |-> signingKeys, CheckingKeys |-> checkingKeys,
     TLSKeyPairs |-> <<>>, JWTKeyPairs |-> jwtKeyPairs,
     Roles |-> roles, RoleMap |-> <<>>]

\* CertAuthorityV2.CheckAndSetDefaults: required fields non-empty, version recognized
CheckAndSetDefaults(c) ==
    IF c.Version # V2 THEN "unrecognized version"
    ELSE IF c.ClusterName = "" THEN "missing cluster name"
    ELSE IF c.Type = "" THEN "missing CA type"
    ELSE Nil

\* sshutils.GetCheckers: a verifier from every checking key
GetCheckers(c) ==
    IF \E i \in 1..Len(c.CheckingKeys) : ParseAuthorizedKey(c.CheckingKeys[i]).err # Nil
    THEN [err |-> "parse ssh public key", keys |-> <<>>]
    ELSE [err |-> Nil, keys |-> [i \in 1..Len(c.CheckingKeys) |-> ParseAuthorizedKey(c.CheckingKeys[i]).key[1]]]

\* sshutils.GetSigners: a signer from every signing key
GetSigners(c) ==
    IF \E i \in 1..Len(c.SigningKeys) : ParseSSHPrivateKey(c.SigningKeys[i]).err # Nil
    THEN [err |-> "parse ssh private key", keys |-> <<>>]
    ELSE [err |-> Nil, keys |-> [i \in 1..Len(c.SigningKeys) |-> ParseSSHPrivateKey(c.SigningKeys[i]).key[1]]]

\* parseRoleMap: every rule has a non-empty pattern and a non-empty role list
parseRoleMap(roleMap) ==
    IF \E i \in 1..Len(roleMap) : roleMap[i].Remote = "" \/ Len(roleMap[i].Local) = 0
    THEN [err |-> "bad role map rule", parsed |-> <<>>]
    ELSE [err |-> Nil, parsed |-> roleMap]

\* checkUserOrHostCA without the TLS key pair count
checkUserOrHostCA_NoTLSCount(c) ==
    IF Len(c.CheckingKeys) = 0 THEN "certificate authority missing SSH public keys"
    ELSE IF GetCheckers(c).err # Nil THEN GetCheckers(c).err
    ELSE IF GetSigners(c).err # Nil THEN GetSigners(c).err
    ELSE IF Len(c.Roles) # 0 /\ Len(c.RoleMap) # 0 THEN "should set either 'roles' or 'role_map', not both"
    ELSE parseRoleMap(c.RoleMap).err

checkUserOrHostCA(c) ==
    IF Len(c.CheckingKeys) = 0 THEN "certificate authority missing SSH public keys"
    ELSE IF Len(c.TLSKeyPairs) = 0 THEN "certificate authority missing TLS key pairs"
    ELSE IF GetCheckers(c).err # Nil THEN GetCheckers(c).err
    ELSE IF GetSigners(c).err # Nil THEN GetSigners(c).err
    ELSE IF Len(c.Roles) # 0 /\ Len(c.RoleMap) # 0 THEN "should set either 'roles' or 'role_map', not both"
    ELSE parseRoleMap(c.RoleMap).err

\* The loop of checkJWTKeys from pair i on; privateKey is the function-scoped
\* variable declared before the loop, cfgs the configurations built so far.
RECURSIVE checkJWTKeysLoop(_, _, _, _)
checkJWTKeysLoop(c, i, privateKey, cfgs) ==
    IF i > Len(c.JWTKeyPairs) THEN [err |-> Nil, cfgs |-> cfgs]
    ELSE
      LET pair == c.JWTKeyPairs[i]
          priv == IF Len(pair.PrivateKey) > 0 THEN ParsePrivateKey(pair.PrivateKey)
                  ELSE [err |-> Nil, key |-> privateKey]
          pub == ParsePublicKey(pair.PublicKey)
          cfg == [Algorithm |-> ApplicationTokenAlgorithm, ClusterName |-> c.ClusterName,
                  PrivateKey |-> priv.key, PublicKey |-> pub.key]
      IN IF priv.err # Nil THEN [err |-> priv.err, cfgs |-> cfgs]
         ELSE IF pub.err # Nil THEN [err |-> pub.err, cfgs |-> cfgs]
         ELSE IF JWTNew(cfg).err # Nil THEN [err |-> JWTNew(cfg).err, cfgs |-> Append(cfgs, cfg)]
         ELSE checkJWTKeysLoop(c, i + 1, priv.key, Append(cfgs, cfg))

checkJWTKeysRun(c) ==
    IF Len(c.JWTKeyPairs) = 0 THEN [err |-> "missing JWT CA", cfgs |-> <<>>]
    ELSE checkJWTKeysLoop(c, 1, NilPtr, <<>>)

checkJWTKeys(c) == checkJWTKeysRun(c).err

ValidateCertAuthority(c) ==
    IF CheckAndSetDefaults(c) # Nil THEN CheckAndSetDefaults(c)
    ELSE IF c.Type \in {UserCA, HostCA} THEN checkUserOrHostCA(c)
    ELSE IF c.Type = JWTSigner THEN checkJWTKeys(c)
    ELSE "invalid CA type"

(* ------------------------ JWT authority operations --------------------- *)
\* jwt.GenerateKeyPair: fails, or returns the two halves of one fresh RSA key
GenerateKeyPairOutcomes ==
    {[err |-> "key generation failed", PublicKey |-> Empty, PrivateKey |-> Empty]}
    \cup {[err |-> Nil, PublicKey |-> k, PrivateKey |-> k] : k \in RSAKeys}

\* NewJWTAuthority returning a CA without any key pair
NewJWTAuthority_NoPair(clusterName, gen) ==
    IF gen.err # Nil THEN [err |-> gen.err, ca |-> NilPtr]
    ELSE [err |-> Nil,
          ca |-> Ptr(NewCertAuthoritySpec(JWTSigner, clusterName, <<>>, <<>>, <<>>, <<>>))]

NewJWTAuthority(clusterName, gen) ==
    IF gen.err # Nil THEN [err |-> gen.err, ca |-> NilPtr]
    ELSE [err |-> Nil,
          ca |-> Ptr(NewCertAuthoritySpec(JWTSigner, clusterName, <<>>, <<>>, <<>>,
                     <<[PublicKey |-> gen.PublicKey, PrivateKey |-> gen.PrivateKey]>>))]

GetJWTSigner(c, clock) ==
    IF Len(c.JWTKeyPairs) = 0 THEN [err |-> "no JWT keypairs found", key |-> NilPtr]
    ELSE LET priv == ParsePrivateKey(c.JWTKeyPairs[1].PrivateKey)
             cfg == [Clock |-> clock, Algorithm |-> ApplicationTokenAlgorithm,
                     ClusterName |-> c.ClusterName, PrivateKey |-> priv.key, PublicKey |-> NilPtr]
         IN IF priv.err # Nil THEN [err |-> priv.err, key |-> NilPtr]
            ELSE JWTNew(cfg)

(* ---------------------------- TLS pool builder ------------------------- *)
\* The inner loop over one CA's key pairs, from pair i on: parse and AddCert.
RECURSIVE AddCerts(_, _, _)
AddCerts(pool, keyPairs, i) ==
    IF i > Len(keyPairs) THEN [err |-> Nil, pool |-> Ptr(pool)]
    ELSE LET parsed == ParseCertificatePEM(keyPairs[i].Cert)
         IN IF parsed.err # Nil THEN [err |-> parsed.err, pool |-> NilPtr]
            ELSE AddCerts(pool \cup {parsed.cert[1]}, keyPairs, i + 1)

\* The outer loop of CertPoolFromCertAuthorities, from CA i on.
RECURSIVE CertPoolFromLoop(_, _, _)
CertPoolFromLoop(pool, list, i) ==
    IF i > Len(list) THEN [err |-> Nil, pool |-> Ptr(pool)]
    ELSE IF Len(list[i].TLSKeyPairs) = 0 THEN CertPoolFromLoop(pool, list, i + 1)
    ELSE LET added == AddCerts(pool, list[i].TLSKeyPairs, 1)
         IN IF added.err # Nil THEN added
            ELSE CertPoolFromLoop(added.pool[1], list, i + 1)

\* CertPoolFromCertAuthorities keeping only the last CA's certificates
CertPoolFromCertAuthorities_LastOnly(list) ==
    IF Len(list) = 0 THEN [err |-> Nil, pool |-> Ptr({})]
    ELSE CertPoolFromLoop({}, <<list[Len(list)]>>, 1)

CertPoolFromCertAuthorities(list) == CertPoolFromLoop({}, list, 1)

CertPool(c) ==
    IF Len(c.TLSKeyPairs) = 0 THEN [err |-> "certificate authority has no TLS certificates", pool |-> NilPtr]
    ELSE AddCerts({}, c.TLSKeyPairs, 1)

(* --------------------------- equivalence checker ----------------------- *)
\* cmp.Equal ignoring nothing
CertAuthoritiesEquivalent_Strict(lhs, r) == lhs = r

\* cmp.Equal(lhs, rhs, cmpopts.IgnoreFields(types.Metadata{}, "ID"))
CertAuthoritiesEquivalent(lhs, r) ==
    \A f \in (DOMAIN lhs \cup DOMAIN r) \ {"ID"} :
        f \in DOMAIN lhs /\ f \in DOMAIN r /\ lhs[f] = r[f]

(* ------------------------ versioned resource codec --------------------- *)
CAFields ==
    {"Version", "ID", "Expires", "Type", "ClusterName", "SigningKeys", "CheckingKeys",
     "TLSKeyPairs", "JWTKeyPairs", "Roles", "RoleMap"}
CNFields == {"Version", "ID", "Expires", "ClusterName"}
HeaderFields == {"Version", "ID", "Expires"}

\* The Go zero value of a field
Zero(f) ==
    CASE f \in {"ID", "Expires"} -> 0
      [] f \in {"Version", "Type", "ClusterName"} -> ""
      [] OTHER -> <<>>

\* A byte buffer: zero-length, not JSON, or a JSON document (field -> value).
EmptyBytes == [raw |-> "empty", doc |-> <<>>]
GarbageBytes == [raw |-> "garbage", doc |-> <<>>]

\* utils.FastMarshal: the JSON document of obj; fields holding their zero value are omitted
FastMarshal(obj) ==
    [raw |-> "json", doc |-> [f \in {g \in DOMAIN obj : obj[g] # Zero(g)} |-> obj[f]]]

\* utils.FastUnmarshal into a struct with the given fields: absent fields keep
\* their zero value, unknown fields of the document are ignored
FastUnmarshal(b, fields) ==
    IF b.raw # "json" THEN [err |-> "invalid JSON", obj |-> NilPtr]
    ELSE [err |-> Nil,
          obj |-> Ptr([f \in fields |-> IF f \in DOMAIN b.doc THEN b.doc[f] ELSE Zero(f)])]

\* MarshalConfig as CollectOptions(opts) returns it
MarshalConfigs == [ID : 0..MaxID, Expires : 0..MaxTime, PreserveResourceID : BOOLEAN]
NoOptions == [ID |-> 0, Expires |-> 0, PreserveResourceID |-> FALSE]
PreserveResourceID == [ID |-> 0, Expires |-> 0, PreserveResourceID |-> TRUE]

\* Metadata.SetResourceID / SetExpiry on a struct value
SetResourceID(obj, id) == [obj EXCEPT !.ID = id]
SetExpiry(obj, t) == [obj EXCEPT !.Expires = t]

\* ClusterNameV2.CheckAndSetDefaults: the cluster name is required
ClusterNameCheckAndSetDefaults(c) ==
    IF c.ClusterName = "" THEN "cluster name is required" ELSE Nil

UnmarshalCertAuthority(b, cfg) ==
    LET h == FastUnmarshal(b, HeaderFields)
        dec == FastUnmarshal(b, CAFields)
    IN IF h.err # Nil THEN [err |-> h.err, obj |-> NilPtr]
       ELSE IF h.obj[1].Version = V2 THEN
            IF dec.err # Nil THEN [err |-> dec.err, obj |-> NilPtr]
            ELSE IF ValidateCertAuthority(dec.obj[1]) # Nil
                 THEN [err |-> ValidateCertAuthority(dec.obj[1]), obj |-> NilPtr]
            ELSE IF cfg.ID # 0 THEN [err |-> Nil, obj |-> Ptr(SetResourceID(dec.obj[1], cfg.ID))]
            ELSE [err |-> Nil, obj |-> dec.obj]
       ELSE [err |-> "cert authority resource version is not supported", obj |-> NilPtr]

UnmarshalClusterName(b, cfg) ==
    LET dec == FastUnmarshal(b, CNFields)
    IN IF b.raw = "empty" THEN [err |-> "missing resource data", obj |-> NilPtr]
       ELSE IF dec.err # Nil THEN [err |-> dec.err, obj |-> NilPtr]
       ELSE IF ClusterNameCheckAndSetDefaults(dec.obj[1]) # Nil
            THEN [err |-> ClusterNameCheckAndSetDefaults(dec.obj[1]), obj |-> NilPtr]
       ELSE LET withID == IF cfg.ID # 0 THEN SetResourceID(dec.obj[1], cfg.ID) ELSE dec.obj[1]
                withExp == IF cfg.Expires # 0 THEN SetExpiry(withID, cfg.Expires) ELSE withID
            IN [err |-> Nil, obj |-> Ptr(withExp)]

\* `copy := *x; x = &copy` done as `x = x`: the local variable still points to
\* the caller's object
CopyOf_Alias(obj) == [ref |-> "caller", val |-> NilPtr]

\* `copy := *certAuthority; certAuthority = &copy`: the local variable points
\* to a fresh struct holding the value read from the caller's object
CopyOf(obj) == [ref |-> "copy", val |-> Ptr(obj)]

\* The struct a local variable points to, given the caller's object
Deref(l, callers) == IF l.ref = "caller" THEN callers ELSE l.val[1]

\* MarshalCertAuthority zeroing the resource ID whatever the options say
MarshalCertAuthority_AlwaysZero(c, cfg) ==
    IF c.Version # V2 THEN [err |-> "mismatched certificate authority version", bytes |-> EmptyBytes]
    ELSE [err |-> Nil, bytes |-> FastMarshal(SetResourceID(Deref(CopyOf(c), c), 0))]

MarshalCertAuthority(c, cfg) ==
    IF c.Version # V2 THEN [err |-> "mismatched certificate authority version", bytes |-> EmptyBytes]
    ELSE IF ~cfg.PreserveResourceID
         THEN [err |-> Nil, bytes |-> FastMarshal(SetResourceID(Deref(CopyOf(c), c), 0))]
    ELSE [err |-> Nil, bytes |-> FastMarshal(c)]

MarshalClusterName(c, cfg) ==
    IF c.Version # V2 THEN [err |-> "mismatched cluster name version", bytes |-> EmptyBytes]
    ELSE IF ~cfg.PreserveResourceID
         THEN [err |-> Nil, bytes |-> FastMarshal(SetResourceID(Deref(CopyOf(c), c), 0))]
    ELSE [err |-> Nil, bytes |-> FastMarshal(c)]

(* ------------------------------- inputs -------------------------------- *)
SeqsUpTo(S, n) == UNION {[1..k -> S] : k \in 0..n}

RSA1 == <<"RSA", 1>>
GoodRule == [Remote |-> "remote-admin", Local |-> <<"admin">>]
BadRule == [Remote |-> "", Local |-> <<"admin">>]
TLSKeyPair(cert) == [Cert |-> cert, Key |-> cert]
ClusterNames == {"", "cluster-x"}
Clocks == {"real", "fake"}

MakeCA(version, id, expires, caType, clusterName, signing, checking, tls, jwtPairs, roles, roleMap) ==
    [Version |-> version, ID |-> id, Expires |-> expires,
     Type |-> caType, ClusterName |-> clusterName,
     SigningKeys |-> signing, CheckingKeys |-> checking,
     TLSKeyPairs |-> tls, JWTKeyPairs |-> jwtPairs,
     Roles |-> roles, RoleMap |-> roleMap]

DefaultCA ==
    MakeCA(V2, 0, 0, HostCA, "cluster-x", <<RSA1>>, <<RSA1>>, <<TLSKeyPair(RSA1)>>, <<>>, <<"admin">>, <<>>)
DefaultCN == [Version |-> V2, ID |-> 0, Expires |-> 0, ClusterName |-> "cluster-x"]

Callers == 1..NumCallers
IdlePC == [t \in Callers |-> "idle"]
IdleLocal == [t \in Callers |-> [kind |-> "ca", preserve |-> FALSE, ref |-> "caller", val |-> NilPtr]]
IdleOut == [t \in Callers |-> [err |-> Nil, bytes |-> EmptyBytes]]

\* Host and user CAs: every shape of SSH and TLS key material, roles and role map
HostUserCAs ==
    {MakeCA(V2, 0, 0, t, "cluster-x", sk, ck, tls, <<>>, r, rm) :
        t \in {HostCA, UserCA},
        sk \in SeqsUpTo({RSA1, Junk}, 1),
        ck \in SeqsUpTo({RSA1, Junk}, MaxKeys),
        tls \in SeqsUpTo({TLSKeyPair(RSA1), TLSKeyPair(Junk)}, MaxKeys),
        r \in {<<>>, <<"admin">>},
        rm \in {<<>>, <<GoodRule>>, <<BadRule>>}}

\* JWT CAs: every shape of key pairs (signing pairs and verify-only pairs)
JWTPairs ==
    [PublicKey : RSAKeys \cup ECKeys \cup {Junk}, PrivateKey : {Empty, RSA1, <<"EC", 1>>, Junk}]
JWTCAs ==
    {MakeCA(V2, 0, 0, JWTSigner, c, <<>>, <<>>, <<>>, jp, r, rm) :
        c \in ClusterNames,
        jp \in SeqsUpTo(JWTPairs, MaxPairs),
        r \in {<<>>, <<"admin">>},
        rm \in {<<>>, <<GoodRule>>}}

\* CAs that fail the structural self-check or the type dispatch
OddCAs ==
    {[DefaultCA EXCEPT !.Version = v, !.Type = t, !.ClusterName = c] :
        v \in {V2, "99"}, t \in {HostCA, "", "bogus"}, c \in ClusterNames}

(* ------------------- validation and JWT authority calls ---------------- *)
InitValidate ==
    /\ op = "init"
    /\ ca \in HostUserCAs \cup JWTCAs \cup OddCAs
    /\ rhs = DefaultCA /\ cas = <<>> /\ cn = DefaultCN /\ opts = NoOptions
    /\ bytes = EmptyBytes /\ ret = [err |-> Nil]
    /\ pc = IdlePC /\ local = IdleLocal /\ out = IdleOut

\* err := ValidateCertAuthority(ca); cfgs are the jwt.Config values checkJWTKeys built
ValidateCertAuthorityCall ==
    /\ ret' = [err |-> ValidateCertAuthority(ca),
               cfgs |-> IF CheckAndSetDefaults(ca) = Nil /\ ca.Type = JWTSigner
                        THEN checkJWTKeysRun(ca).cfgs ELSE <<>>]
    /\ op' = "ValidateCertAuthority"
    /\ UNCHANGED <<ca, rhs, cas, cn, opts, bytes, pc, local, out>>

\* key, err := GetJWTSigner(ca, clock)
GetJWTSignerCall ==
    \E clock \in Clocks :
        /\ ret' = [err |-> GetJWTSigner(ca, clock).err, key |-> GetJWTSigner(ca, clock).key,
                   clock |-> clock]
        /\ op' = "GetJWTSigner"
        /\ UNCHANGED <<ca, rhs, cas, cn, opts, bytes, pc, local, out>>

\* ca, err = NewJWTAuthority(clusterName)
NewJWTAuthorityCall ==
    \E clusterName \in ClusterNames, gen \in GenerateKeyPairOutcomes :
        LET r == NewJWTAuthority(clusterName, gen)
        IN /\ ret' = [err |-> r.err, ca |-> r.ca, clusterName |-> clusterName, gen |-> gen]
           /\ ca' = IF r.err = Nil THEN r.ca[1] ELSE ca
           /\ op' = "NewJWTAuthority"
           /\ UNCHANGED <<rhs, cas, cn, opts, bytes, pc, local, out>>

NextValidate == ValidateCertAuthorityCall \/ GetJWTSignerCall \/ NewJWTAuthorityCall

SpecValidate == InitValidate /\ [][NextValidate]_vars

(* ------------------- properties of validation (SpecValidate) ----------- *)
HasRolesAndRoleMap(c) == Len(c.Roles) # 0 /\ Len(c.RoleMap) # 0
AllCheckingKeysParse(c) ==
    \A i \in 1..Len(c.CheckingKeys) : ParseAuthorizedKey(c.CheckingKeys[i]).err = Nil
AllTLSKeyPairsParse(c) ==
    \A i \in 1..Len(c.TLSKeyPairs) : ParseCertificatePEM(c.TLSKeyPairs[i].Cert).err = Nil
Reverse(s) == [i \in 1..Len(s) |-> s[Len(s) + 1 - i]]

\* C5: every CA of any type (HostCA, UserCA or JWTSigner) that has both a
\* non-empty roles list and a non-empty role map is rejected by
\* ValidateCertAuthority.
C5_RolesXorRoleMapAnyType ==
    (op = "ValidateCertAuthority" /\ HasRolesAndRoleMap(ca)) => ret.err # Nil

C9_NewJWTAuthority ==
    /\ op = "NewJWTAuthority" /\ ret.gen.err # Nil => ret.err # Nil /\ ret.ca = NilPtr
    /\ op = "NewJWTAuthority" /\ ret.gen.err = Nil =>
          /\ ret.err = Nil /\ ret.ca # NilPtr
          /\ ret.ca[1].Type = JWTSigner
          /\ ret.ca[1].ClusterName = ret.clusterName
          /\ Len(ret.ca[1].JWTKeyPairs) = 1
          /\ ret.clusterName # "" =>
                /\ ValidateCertAuthority(ret.ca[1]) = Nil
                /\ \A clock \in Clocks :
                     LET signer == GetJWTSigner(ret.ca[1], clock)
                     IN /\ signer.err = Nil /\ signer.key # NilPtr
                        /\ signer.key[1].ClusterName = ret.clusterName
                        /\ signer.key[1].Clock = clock
                        /\ signer.key[1].PrivateKey = ParsePrivateKey(ret.gen.PrivateKey).key
                        /\ signer.key[1].PrivateKey # NilPtr
    /\ op = "GetJWTSigner" /\ Len(ca.JWTKeyPairs) = 0 => ret.err # Nil /\ ret.key = NilPtr

\* NewJWTAuthority("cluster-x") succeeded and returned a CA.
C9_Witness ==
    op = "NewJWTAuthority" /\ ret.err = Nil /\ ret.clusterName = "cluster-x" /\ ret.ca # NilPtr

\* C10: in checkJWTKeys every key pair is checked on its own material: the
\* configuration built for pair i holds that pair's parsed public key and that
\* pair's private key if it has one, and no private key otherwise; and the
\* verdict does not depend on the order of the pairs.
C10_EachPairCheckedOnItsOwnMaterial ==
    (op = "ValidateCertAuthority" /\ ca.Type = JWTSigner) =>
        /\ \A i \in 1..Len(ret.cfgs) :
              /\ ret.cfgs[i].PublicKey = ParsePublicKey(ca.JWTKeyPairs[i].PublicKey).key
              /\ ret.cfgs[i].PrivateKey =
                    IF Len(ca.JWTKeyPairs[i].PrivateKey) > 0
                    THEN ParsePrivateKey(ca.JWTKeyPairs[i].PrivateKey).key
                    ELSE NilPtr
        /\ (ret.err = Nil) <=>
              (ValidateCertAuthority([ca EXCEPT !.JWTKeyPairs = Reverse(ca.JWTKeyPairs)]) = Nil)

(* ------------------------- pool building calls ------------------------- *)
RSA2 == <<"RSA", 2>>
PoolCAs ==
    {[DefaultCA EXCEPT !.TLSKeyPairs = tls] :
        tls \in SeqsUpTo({TLSKeyPair(RSA1), TLSKeyPair(RSA2), TLSKeyPair(Junk)}, MaxKeys)}

InitPool ==
    /\ op = "init"
    /\ cas \in SeqsUpTo(PoolCAs, MaxCAs)
    /\ ca = DefaultCA /\ rhs = DefaultCA /\ cn = DefaultCN /\ opts = NoOptions
    /\ bytes = EmptyBytes /\ ret = [err |-> Nil]
    /\ pc = IdlePC /\ local = IdleLocal /\ out = IdleOut

\* pool, err := CertPoolFromCertAuthorities(cas)
CertPoolFromCertAuthoritiesCall ==
    /\ ret' = [err |-> CertPoolFromCertAuthorities(cas).err,
               pool |-> CertPoolFromCertAuthorities(cas).pool, arg |-> 0]
    /\ op' = "CertPoolFromCertAuthorities"
    /\ UNCHANGED <<ca, rhs, cas, cn, opts, bytes, pc, local, out>>

\* pool, err := CertPool(cas[i])
CertPoolCall ==
    \E i \in 1..Len(cas) :
        /\ ret' = [err |-> CertPool(cas[i]).err, pool |-> CertPool(cas[i]).pool, arg |-> i]
        /\ op' = "CertPool"
        /\ UNCHANGED <<ca, rhs, cas, cn, opts, bytes, pc, local, out>>

NextPool == CertPoolFromCertAuthoritiesCall \/ CertPoolCall

SpecPool == InitPool /\ [][NextPool]_vars

\* The parsed TLS certificates of the CAs of a list
CertsOf(list) ==
    {ParseCertificatePEM(list[i].TLSKeyPairs[j].Cert).cert[1] :
        <<i, j>> \in {<<i, j>> \in (1..Len(list)) \X (1..MaxKeys + 1) : j <= Len(list[i].TLSKeyPairs)}}
AllCertsParse(list) == \A i \in 1..Len(list) : AllTLSKeyPairsParse(list[i])

\* C7: CertPoolFromCertAuthorities(cas) succeeds with a pool holding exactly
\* the TLS certificates of all CAs of cas, skipping CAs without TLS key pairs
\* (an empty pool when none has any); CertPool(ca) fails when ca has no TLS
\* key pair; in both forms one unparseable certificate gives an error and no pool.
C7_CertPools ==
    /\ op = "CertPoolFromCertAuthorities" =>
          IF AllCertsParse(cas)
          THEN ret.err = Nil /\ ret.pool = Ptr(CertsOf(cas))
          ELSE ret.err # Nil /\ ret.pool = NilPtr
    /\ op = "CertPool" =>
          IF Len(cas[ret.arg].TLSKeyPairs) = 0 \/ ~AllTLSKeyPairsParse(cas[ret.arg])
          THEN ret.err # Nil /\ ret.pool = NilPtr
          ELSE ret.err = Nil /\ ret.pool = Ptr(CertsOf(<<cas[ret.arg]>>))

\* A pool was built from two CAs, the first with two distinct certificates and
\* the second with none, and holds exactly two certificates.
C7_Witness ==
    /\ op = "CertPoolFromCertAuthorities" /\ Len(cas) = 2
    /\ Len(cas[1].TLSKeyPairs) = 2 /\ Len(cas[2].TLSKeyPairs) = 0
    /\ ret.err = Nil /\ Cardinality(ret.pool[1]) = 2

(* --------------------------- equivalence calls ------------------------- *)
EquivCAs ==
    {[c EXCEPT !.ID = id, !.Expires = e] :
        id \in 0..MaxID, e \in 0..MaxTime,
        c \in {DefaultCA,
               [DefaultCA EXCEPT !.Type = UserCA],
               [DefaultCA EXCEPT !.ClusterName = "cluster-y"],
               [DefaultCA EXCEPT !.Roles = <<"auditor">>],
               [DefaultCA EXCEPT !.Roles = <<>>, !.RoleMap = <<GoodRule>>],
               [DefaultCA EXCEPT !.TLSKeyPairs = <<TLSKeyPair(RSA2)>>],
               [DefaultCA EXCEPT !.CheckingKeys = <<RSA2>>],
               [DefaultCA EXCEPT !.JWTKeyPairs = <<[PublicKey |-> RSA1, PrivateKey |-> Empty]>>]}}

InitEquiv ==
    /\ op = "init"
    /\ ca \in EquivCAs /\ rhs \in EquivCAs
    /\ cas = <<>> /\ cn = DefaultCN /\ opts = NoOptions
    /\ bytes = EmptyBytes /\ ret = [err |-> Nil]
    /\ pc = IdlePC /\ local = IdleLocal /\ out = IdleOut

\* equal := CertAuthoritiesEquivalent(ca, rhs)
CertAuthoritiesEquivalentCall ==
    /\ ret' = [err |-> Nil, equal |-> CertAuthoritiesEquivalent(ca, rhs)]
    /\ op' = "CertAuthoritiesEquivalent"
    /\ UNCHANGED <<ca, rhs, cas, cn, opts, bytes, pc, local, out>>

NextEquiv == CertAuthoritiesEquivalentCall

SpecEquiv == InitEquiv /\ [][NextEquiv]_vars

\* C8: CertAuthoritiesEquivalent(a, b) is true exactly when a and b are equal
\* in every field other than the resource ID: true when they differ in the
\* resource ID only, false when a key pair, role, role-map rule, cluster name,
\* type or expiry differs.
C8_EquivalentIgnoresOnlyResourceID ==
    op = "CertAuthoritiesEquivalent" =>
        /\ ret.equal <=> (SetResourceID(ca, rhs.ID) = rhs)
        /\ (ca.ID # rhs.ID /\ SetResourceID(ca, rhs.ID) = rhs) => ret.equal
        /\ (ca.Expires # rhs.Expires \/ ca.Type # rhs.Type \/ ca.ClusterName # rhs.ClusterName
              \/ ca.Roles # rhs.Roles \/ ca.RoleMap # rhs.RoleMap
              \/ ca.TLSKeyPairs # rhs.TLSKeyPairs \/ ca.CheckingKeys # rhs.CheckingKeys
              \/ ca.JWTKeyPairs # rhs.JWTKeyPairs) => ~ret.equal

\* Two CAs that differ in the resource ID only were found equivalent.
C8_Witness ==
    op = "CertAuthoritiesEquivalent" /\ ca.ID # rhs.ID /\ ca.Expires # 0 /\ ret.equal

(* ------------------------------ codec calls ---------------------------- *)
JWTOnlyCA ==
    MakeCA(V2, 0, 0, JWTSigner, "cluster-x", <<>>, <<>>, <<>>,
           <<[PublicKey |-> RSA1, PrivateKey |-> RSA1], [PublicKey |-> RSA2, PrivateKey |-> Empty]>>,
           <<>>, <<>>)
CodecCAs ==
    {[c EXCEPT !.Version = v, !.ID = id, !.Expires = e] :
        v \in {V2, "99"}, id \in 0..MaxID, e \in 0..MaxTime,
        c \in {DefaultCA,
               [DefaultCA EXCEPT !.Roles = <<>>, !.RoleMap = <<GoodRule>>],
               [DefaultCA EXCEPT !.TLSKeyPairs = <<>>],
               JWTOnlyCA}}
CodecCNs ==
    {[Version |-> v, ID |-> id, Expires |-> e, ClusterName |-> c] :
        v \in {V2, "99"}, id \in 0..MaxID, e \in 0..MaxTime, c \in ClusterNames}

\* The caller holds a CA and a cluster name, and a buffer read from storage:
\* empty, not JSON, or the stored form of one of the two objects.
InitCodec ==
    /\ op = "init"
    /\ ca \in CodecCAs
    /\ cn \in {c \in CodecCNs : c.ID = ca.ID /\ c.Expires = ca.Expires}
    /\ bytes \in {EmptyBytes, GarbageBytes, FastMarshal(ca), FastMarshal(cn)}
    /\ rhs = DefaultCA /\ cas = <<>> /\ opts = NoOptions /\ ret = [err |-> Nil]
    /\ pc = IdlePC /\ local = IdleLocal /\ out = IdleOut

\* bytes, err = MarshalCertAuthority(ca, opts...)
MarshalCertAuthorityCall ==
    \E cfg \in MarshalConfigs :
        LET r == MarshalCertAuthority(ca, cfg)
        IN /\ cfg.ID = 0 /\ cfg.Expires = 0
           /\ ret' = r /\ opts' = cfg /\ op' = "MarshalCertAuthority"
           /\ bytes' = IF r.err = Nil THEN r.bytes ELSE bytes
           /\ UNCHANGED <<ca, rhs, cas, cn, pc, local, out>>

\* bytes, err = MarshalClusterName(cn, opts...)
MarshalClusterNameCall ==
    \E cfg \in MarshalConfigs :
        LET r == MarshalClusterName(cn, cfg)
        IN /\ cfg.ID = 0 /\ cfg.Expires = 0
           /\ ret' = r /\ opts' = cfg /\ op' = "MarshalClusterName"
           /\ bytes' = IF r.err = Nil THEN r.bytes ELSE bytes
           /\ UNCHANGED <<ca, rhs, cas, cn, pc, local, out>>

\* obj, err := UnmarshalCertAuthority(bytes, opts...)
UnmarshalCertAuthorityCall ==
    \E cfg \in MarshalConfigs :
        /\ ~cfg.PreserveResourceID
        /\ ret' = UnmarshalCertAuthority(bytes, cfg) /\ opts' = cfg
        /\ op' = "UnmarshalCertAuthority"
        /\ UNCHANGED <<ca, rhs, cas, cn, bytes, pc, local, out>>

\* obj, err := UnmarshalClusterName(bytes, opts...)
UnmarshalClusterNameCall ==
    \E cfg \in MarshalConfigs :
        /\ ~cfg.PreserveResourceID
        /\ ret' = UnmarshalClusterName(bytes, cfg) /\ opts' = cfg
        /\ op' = "UnmarshalClusterName"
        /\ UNCHANGED <<ca, rhs, cas, cn, bytes, pc, local, out>>

NextCodec ==
    \/ MarshalCertAuthorityCall
    \/ MarshalClusterNameCall
    \/ UnmarshalCertAuthorityCall
    \/ UnmarshalClusterNameCall

SpecCodec == InitCodec /\ [][NextCodec]_vars

\* C2: for every CA that ValidateCertAuthority accepts, marshaling it with
\* PreserveResourceID succeeds, and unmarshaling those bytes with no options
\* succeeds and returns a CA equal to it in every field, resource ID included.
C2_RoundTrip ==
    /\ (op = "MarshalCertAuthority" /\ opts.PreserveResourceID /\ ValidateCertAuthority(ca) = Nil)
          => ret.err = Nil
    /\ (/\ op = "UnmarshalCertAuthority" /\ opts = NoOptions
        /\ ValidateCertAuthority(ca) = Nil
        /\ bytes = MarshalCertAuthority(ca, PreserveResourceID).bytes)
          => ret.err = Nil /\ ret.obj = Ptr(ca)

\* A valid CA with a resource ID and an expiry was marshaled with
\* PreserveResourceID and unmarshaled again.
C2_Witness ==
    /\ op = "UnmarshalCertAuthority" /\ opts = NoOptions
    /\ ValidateCertAuthority(ca) = Nil /\ ca.ID # 0 /\ ca.Expires # 0
    /\ bytes = MarshalCertAuthority(ca, PreserveResourceID).bytes
    /\ ret.err = Nil

\* The object a successful unmarshal decoded from the bytes, before overrides
Decoded(fields) == FastUnmarshal(bytes, fields).obj[1]
OverridesApplied(fields) ==
    /\ ret.obj[1].ID = IF opts.ID # 0 THEN opts.ID ELSE Decoded(fields).ID
    /\ ret.obj[1].Expires = IF opts.Expires # 0 THEN opts.Expires ELSE Decoded(fields).Expires

\* C3: for CA and cluster-name resources alike a successful unmarshal applies
\* the caller's overrides: a non-zero resource ID option becomes the object's
\* resource ID, a non-zero expiry option becomes its expiry, and an absent
\* option keeps the decoded value.
C3_OverridesApplied ==
    /\ (op = "UnmarshalCertAuthority" /\ ret.err = Nil) => OverridesApplied(CAFields)
    /\ (op = "UnmarshalClusterName" /\ ret.err = Nil) => OverridesApplied(CNFields)

\* C4: unmarshaling a buffer whose header declares a version other than "2"
\* fails and returns no object, for UnmarshalCertAuthority and for
\* UnmarshalClusterName alike.
C4_UnsupportedVersionRejected ==
    (/\ op \in {"UnmarshalCertAuthority", "UnmarshalClusterName"}
     /\ bytes.raw = "json"
     /\ FastUnmarshal(bytes, HeaderFields).obj[1].Version # V2)
        => ret.err # Nil /\ ret.obj = NilPtr

(* ------------------------ concurrent marshal calls --------------------- *)
MarshalCAs ==
    {[DefaultCA EXCEPT !.Version = v, !.ID = id] : v \in {V2, "99"}, id \in 0..MaxID}
MarshalCNs ==
    {[DefaultCN EXCEPT !.Version = v, !.ID = id] : v \in {V2, "99"}, id \in 0..MaxID}

InitMarshal ==
    /\ op = "init"
    /\ ca \in MarshalCAs /\ cn \in MarshalCNs
    /\ rhs = DefaultCA /\ cas = <<>> /\ opts = NoOptions
    /\ bytes = EmptyBytes /\ ret = [err |-> Nil]
    /\ pc = IdlePC /\ local = IdleLocal /\ out = IdleOut

\* The caller's object a marshal call of the given kind was handed
Callers_Object(kind) == IF kind = "ca" THEN ca ELSE cn

\* CollectOptions and the version check of the type switch
MarshalBegin(t) ==
    \E kind \in {"ca", "cn"}, preserve \in BOOLEAN :
        /\ pc[t] = "idle"
        /\ local' = [local EXCEPT ![t] = [kind |-> kind, preserve |-> preserve,
                                          ref |-> "caller", val |-> NilPtr]]
        /\ IF Callers_Object(kind).Version # V2
           THEN /\ pc' = [pc EXCEPT ![t] = "done"]
                /\ out' = [out EXCEPT ![t] = [err |-> "mismatched version", bytes |-> EmptyBytes]]
           ELSE /\ pc' = [pc EXCEPT ![t] = IF preserve THEN "marshal" ELSE "copy"]
                /\ out' = out
        /\ op' = "Marshal"
        /\ UNCHANGED <<ca, rhs, cas, cn, opts, bytes, ret>>

\* copy := *certAuthority (the local variable is re-pointed to it)
MarshalCopy(t) ==
    /\ pc[t] = "copy"
    /\ local' = [local EXCEPT ![t].ref = CopyOf(Callers_Object(local[t].kind)).ref,
                              ![t].val = CopyOf(Callers_Object(local[t].kind)).val]
    /\ pc' = [pc EXCEPT ![t] = "setid"]
    /\ UNCHANGED <<op, ca, rhs, cas, cn, opts, bytes, ret, out>>

\* copy.SetResourceID(0): a write to the struct the local variable points to
MarshalSetResourceID(t) ==
    /\ pc[t] = "setid"
    /\ IF local[t].ref = "caller"
       THEN /\ ca' = IF local[t].kind = "ca" THEN SetResourceID(ca, 0) ELSE ca
            /\ cn' = IF local[t].kind = "cn" THEN SetResourceID(cn, 0) ELSE cn
            /\ local' = local
       ELSE /\ local' = [local EXCEPT ![t].val = Ptr(SetResourceID(local[t].val[1], 0))]
            /\ UNCHANGED <<ca, cn>>
    /\ pc' = [pc EXCEPT ![t] = "marshal"]
    /\ UNCHANGED <<op, rhs, cas, opts, bytes, ret, out>>

\* return utils.FastMarshal(certAuthority)
MarshalReturn(t) ==
    /\ pc[t] = "marshal"
    /\ out' = [out EXCEPT ![t] =
                  [err |-> Nil,
                   bytes |-> FastMarshal(Deref(local[t], Callers_Object(local[t].kind)))]]
    /\ pc' = [pc EXCEPT ![t] = "done"]
    /\ UNCHANGED <<op, ca, rhs, cas, cn, opts, bytes, ret, local>>

NextMarshal ==
    \E t \in Callers :
        \/ MarshalBegin(t)
        \/ MarshalCopy(t)
        \/ MarshalSetResourceID(t)
        \/ MarshalReturn(t)

SpecMarshal == InitMarshal /\ [][NextMarshal]_vars

\* C1: marshal calls without PreserveResourceID, also interleaved on the same
\* object, never change the caller's CA or cluster name, and the bytes they
\* return carry resource ID 0 whatever the object's ID is.
C1_MarshalLeavesCallerObject ==
    /\ [][ca' = ca /\ cn' = cn]_vars
    /\ [](\A t \in Callers :
            (pc[t] = "done" /\ out[t].err = Nil /\ ~local[t].preserve) =>
                FastUnmarshal(out[t].bytes, HeaderFields).obj[1].ID = 0)

\* Two calls without PreserveResourceID ran interleaved on the same CA, whose
\* resource ID is not 0: one has returned while the other is past its copy.
C1_Witness ==
    \E t, u \in Callers :
        /\ t # u /\ ca.ID # 0
        /\ local[t].kind = "ca" /\ local[u].kind = "ca"
        /\ ~local[t].preserve /\ ~local[u].preserve
        /\ pc[t] = "done" /\ out[t].err = Nil
        /\ pc[u] = "marshal"

====
